---- MODULE Spec2Model ----
(***************************************************************************)
(* Model of the frame parser of the FLIR One Pro LT driver                 *)
(* (src/flir/frame_parser.py).  A FrameParser object is a record           *)
(* [buffer, buffer_ptr, buffer_size]; the byte stream on the wire is fed   *)
(* to it by add_chunk in chunks, and every value add_chunk returns is      *)
(* recorded.                                                               *)
(*                                                                         *)
(* Bytes are the integers 0..255, byte strings are sequences, and a Python *)
(* index i (0-based) is the TLA+ index i + 1.  An Optional value is <<>>   *)
(* for None and <<v>> for a value v.                                       *)
(*                                                                         *)
(* Scaling.  The sensor geometry (80 x 60 in the source) and the default   *)
(* buffer size (1 MiB) are scaled down so that whole frames can be         *)
(* enumerated: THERMAL_WIDTH and THERMAL_HEIGHT are small, and buffer_size *)
(* (a constructor argument in the source) is drawn from BufferSizes.  The  *)
(* header layout (28 bytes, four little-endian uint32 at offsets 8..20)    *)
(* and the magic are those of the source.  Python integers are unbounded;  *)
(* header fields used here stay below 2^29 so that no sum leaves the       *)
(* range of TLC's 32-bit integers.                                         *)
(***************************************************************************)
EXTENDS Integers, Sequences, FiniteSets, TLC

\* ------------------------------------------------------------ constants

\* frame_parser.py:13
MAGIC_BYTES == <<239, 190, 0, 0>>

\* frame_parser.py:16,17 (80 and 60 in the source; scaled)
THERMAL_WIDTH == 2
THERMAL_HEIGHT == 1

\* frame_parser.py:18
THERMAL_PIXELS == THERMAL_WIDTH * THERMAL_HEIGHT

\* frame_parser.py:21
HEADER_SIZE == 28

None == <<>>

Some(v) == <<v>>

Min(a, b) == IF a < b THEN a ELSE b

Max(a, b) == IF a > b THEN a ELSE b

\* ------------------------------------------------- Python byte strings

\* Python's normalisation of a slice bound i for a sequence of length n.
SliceIndex(i, n) == IF i < 0 THEN Max(n + i, 0) ELSE Min(i, n)

\* s[a:b]
Slice(s, a, b) ==
    LET lo == SliceIndex(a, Len(s))
        hi == SliceIndex(b, Len(s))
    IN  IF lo >= hi THEN <<>> ELSE SubSeq(s, lo + 1, hi)

\* s[a:]
SliceFrom(s, a) == Slice(s, a, Len(s))

\* s[a:b] = rhs on a bytearray: the slice is replaced by rhs, whatever
\* the two lengths are (the array grows or shrinks when they differ).
SliceAssign(s, a, b, rhs) ==
    LET lo == SliceIndex(a, Len(s))
        hi == Max(SliceIndex(b, Len(s)), lo)
    IN  SubSeq(s, 1, lo) \o rhs \o SubSeq(s, hi + 1, Len(s))

\* struct.unpack_from('<I', buffer, off)[0]
UnpackU32LE(buf, off) ==
    buf[off + 1] + 256 * buf[off + 2] + 65536 * buf[off + 3]
        + 16777216 * buf[off + 4]

\* The same image read as little-endian values (dtype='<u2').
FromBufferLE(bytes) ==
    [r \in 1..THERMAL_HEIGHT |->
        [c \in 1..THERMAL_WIDTH |->
            LET k == (r - 1) * THERMAL_WIDTH + (c - 1)
            IN  bytes[2 * k + 1] + 256 * bytes[2 * k + 2]]]

\* np.frombuffer(bytes, dtype='>u2').reshape((THERMAL_HEIGHT, THERMAL_WIDTH))
FromBufferBE(bytes) ==
    [r \in 1..THERMAL_HEIGHT |->
        [c \in 1..THERMAL_WIDTH |->
            LET k == (r - 1) * THERMAL_WIDTH + (c - 1)
            IN  256 * bytes[2 * k + 1] + bytes[2 * k + 2]]]

\* np.zeros((THERMAL_HEIGHT, THERMAL_WIDTH), dtype=np.uint16)
ZeroImage == [r \in 1..THERMAL_HEIGHT |-> [c \in 1..THERMAL_WIDTH |-> 0]]

\* ------------------------------------------------------- FrameParser

\* FrameParser.__init__
NewParser(size) ==
    [buffer |-> [i \in 1..size |-> 0], buffer_ptr |-> 0, buffer_size |-> size]

\* FrameParser.reset
ResetParser(p) == [p EXCEPT !.buffer_ptr = 0]

\* FrameParser._find_magic: data.index(MAGIC_BYTES, start), -1 when absent
FindMagic(data, start) ==
    LET hits == {i \in start..(Len(data) - 4) :
                    SubSeq(data, i + 1, i + 4) = MAGIC_BYTES}
    IN  IF hits = {} THEN -1
        ELSE CHOOSE i \in hits : \A j \in hits : i <= j

\* FrameParser._resync_buffer
ResyncBuffer(p) ==
    LET pos == FindMagic(Slice(p.buffer, 1, p.buffer_ptr), 0)
    IN  IF pos >= 0
        THEN LET at == pos + 1
                 remaining == p.buffer_ptr - at
             IN  [p EXCEPT
                    !.buffer = SliceAssign(p.buffer, 0, remaining,
                                           Slice(p.buffer, at, p.buffer_ptr)),
                    !.buffer_ptr = remaining]
        ELSE LET keep == Min(3, p.buffer_ptr)
             IN  [p EXCEPT
                    !.buffer = SliceAssign(p.buffer, 0, keep,
                                   Slice(p.buffer, p.buffer_ptr - keep,
                                         p.buffer_ptr)),
                    !.buffer_ptr = keep]

\* _resync_from_chunk keeping nothing of a chunk without magic: a variant
\* the code does not have.
ResyncFromChunkKeepNone(p, data) ==
    LET pos == FindMagic(data, 0)
    IN  IF pos >= 0
        THEN LET remaining == Min(Len(data) - pos, p.buffer_size)
             IN  [p EXCEPT
                    !.buffer = SliceAssign(p.buffer, 0, remaining,
                                           Slice(data, pos, pos + remaining)),
                    !.buffer_ptr = remaining]
        ELSE [p EXCEPT !.buffer_ptr = 0]

\* FrameParser._resync_from_chunk
ResyncFromChunk(p, data) ==
    LET pos == FindMagic(data, 0)
    IN  IF pos >= 0
        THEN LET remaining == Min(Len(data) - pos, p.buffer_size)
             IN  [p EXCEPT
                    !.buffer = SliceAssign(p.buffer, 0, remaining,
                                           Slice(data, pos, pos + remaining)),
                    !.buffer_ptr = remaining]
        ELSE LET keep == Min(3, Len(data))
             IN  [p EXCEPT
                    !.buffer = SliceAssign(p.buffer, 0, keep,
                                           SliceFrom(data, 0 - keep)),
                    !.buffer_ptr = keep]

\* The overflow test of add_chunk (frame_parser.py:58).
Overflows(p, data) == p.buffer_ptr + Len(data) >= p.buffer_size

\* A header-length test that waits for the magic only, not for the header.
HeaderIncompleteMagicOnly(p) == p.buffer_ptr < 4

\* The header-length test of _try_parse_frame (frame_parser.py:115).
HeaderIncomplete(p) == p.buffer_ptr < HEADER_SIZE + 4

\* The first sanity check of _try_parse_frame (frame_parser.py:129).
BadFrameSize(p, frame_size) ==
    frame_size = 0 \/ frame_size + HEADER_SIZE > p.buffer_size

\* The second sanity check of _try_parse_frame (frame_parser.py:138).
BadSubSizes(p, thermal_size, jpeg_size) ==
    HEADER_SIZE + thermal_size + jpeg_size > p.buffer_ptr

\* The thermal image of _try_parse_frame (frame_parser.py:142-154).
ThermalRaw(thermal_bytes) ==
    IF Len(thermal_bytes) >= THERMAL_PIXELS * 2
    THEN FromBufferBE(Slice(thermal_bytes, 0, THERMAL_PIXELS * 2))
    ELSE ZeroImage

\* The removal of the processed frame (frame_parser.py:177-182).
Consume(p, consumed) ==
    LET remaining == p.buffer_ptr - consumed
    IN  [p EXCEPT
            !.buffer = IF remaining > 0
                       THEN SliceAssign(p.buffer, 0, remaining,
                                        Slice(p.buffer, consumed, p.buffer_ptr))
                       ELSE p.buffer,
            !.buffer_ptr = remaining]

\* FrameParser._try_parse_frame: the parser afterwards and the value returned.
TryParseFrame(p) ==
    IF HeaderIncomplete(p) THEN [parser |-> p, ret |-> None]
    ELSE
    LET frame_size == UnpackU32LE(p.buffer, 8)
        thermal_size == UnpackU32LE(p.buffer, 12)
        jpeg_size == UnpackU32LE(p.buffer, 16)
        status_size == UnpackU32LE(p.buffer, 20)
        total_needed == HEADER_SIZE + frame_size
        thermal_start == HEADER_SIZE
        thermal_end == thermal_start + thermal_size
        jpeg_start == thermal_end
        jpeg_end == jpeg_start + jpeg_size
        status_start == jpeg_end
        status_end == status_start + status_size
        frame ==
            [thermal_raw |-> ThermalRaw(Slice(p.buffer, thermal_start, thermal_end)),
             visible_jpeg |-> IF jpeg_size > 0
                              THEN Some(Slice(p.buffer, jpeg_start, jpeg_end))
                              ELSE None,
             status_data |-> IF status_size > 0
                             THEN Some(Slice(p.buffer, status_start, status_end))
                             ELSE None,
             frame_size |-> frame_size,
             thermal_size |-> thermal_size,
             jpeg_size |-> jpeg_size,
             status_size |-> status_size]
    IN  IF BadFrameSize(p, frame_size)
        THEN [parser |-> ResetParser(p), ret |-> None]
        ELSE IF p.buffer_ptr < total_needed
        THEN [parser |-> p, ret |-> None]
        ELSE IF BadSubSizes(p, thermal_size, jpeg_size)
        THEN [parser |-> ResetParser(p), ret |-> None]
        ELSE [parser |-> Consume(p, total_needed), ret |-> Some(frame)]

\* FrameParser.add_chunk: the parser afterwards and the value returned.
AddChunk(p, data) ==
    IF data = <<>> THEN [parser |-> p, ret |-> None]
    ELSE IF Overflows(p, data)
    THEN [parser |-> ResyncFromChunk(p, data), ret |-> None]
    ELSE
    LET q == [p EXCEPT
                !.buffer = SliceAssign(p.buffer, p.buffer_ptr,
                                       p.buffer_ptr + Len(data), data),
                !.buffer_ptr = p.buffer_ptr + Len(data)]
    IN  IF q.buffer_ptr >= 4
        THEN IF Slice(q.buffer, 0, 4) # MAGIC_BYTES
             THEN [parser |-> ResyncBuffer(q), ret |-> None]
             ELSE TryParseFrame(q)
        ELSE [parser |-> q, ret |-> None]

\* ------------------------------------------------------------- the wire

\* Bounds of the model.
GarbageLen == 17

MaxChunk == 2

\* struct.pack('<I', v)
PackU32LE(v) ==
    <<v % 256, (v \div 256) % 256, (v \div 65536) % 256, (v \div 16777216) % 256>>

\* n payload bytes seed+1, seed+2, ... (never part of a magic sequence)
Payload(n, seed) == [i \in 1..n |-> seed + (i % 32)]

\* The 28-byte header of the wire format (spec section 6).
Header(frame_size, thermal_size, jpeg_size, status_size) ==
    MAGIC_BYTES \o <<0, 0, 0, 0>> \o PackU32LE(frame_size)
        \o PackU32LE(thermal_size) \o PackU32LE(jpeg_size)
        \o PackU32LE(status_size) \o <<0, 0, 0, 0>>

\* Two well-formed frames: thermal_size is one full image, and
\* thermal_size + jpeg_size + status_size = frame_size.
FrameA ==
    Header(THERMAL_PIXELS * 2 + 3, THERMAL_PIXELS * 2, 2, 1)
        \o Payload(THERMAL_PIXELS * 2, 16) \o Payload(2, 64) \o Payload(1, 96)

FrameB ==
    Header(THERMAL_PIXELS * 2 + 2, THERMAL_PIXELS * 2, 0, 2)
        \o Payload(THERMAL_PIXELS * 2, 128) \o Payload(2, 160)

\* A well-formed frame shorter than an image: frame_size is 3.
FrameTiny == Header(3, 1, 1, 1) \o Payload(3, 32)

\* A frame whose thermal block is one sample short of an image.
FrameShort ==
    Header(THERMAL_PIXELS * 2 + 2, THERMAL_PIXELS * 2 - 2, 2, 2)
        \o Payload(THERMAL_PIXELS * 2 - 2, 16) \o Payload(2, 64) \o Payload(2, 96)

\* A frame whose header declares 3 status bytes that frame_size does not
\* cover and the wire does not carry.
FrameLongStatus ==
    Header(THERMAL_PIXELS * 2, THERMAL_PIXELS * 2, 0, 3)
        \o Payload(THERMAL_PIXELS * 2, 192)

\* Headers with a frame_size the parser must reject: 0, and one far larger
\* than any buffer (0x1FFFFFFF).
HeaderZero == Header(0, THERMAL_PIXELS * 2, 0, 0)

HeaderHuge == Header(536870911, THERMAL_PIXELS * 2, 0, 0)

Garbage == [i \in 1..GarbageLen |-> 255]

\* The raw count of every pixel of the minimal frame (0x1000), and its
\* payload: n bytes of alternating 0x10 0x00.
MinimalRaw == 16 * 256

Alternating(n) ==
    [i \in 1..n |-> IF i % 2 = 1 THEN MinimalRaw \div 256 ELSE MinimalRaw % 256]

\* The minimal frame as the specification spells it out (9604, 9600, 0, 0
\* and 9600 payload bytes for the 80 x 60 sensor): frame_size is 4 more
\* than thermal_size, and the payload is one image.
FrameMinimal ==
    Header(THERMAL_PIXELS * 2 + 4, THERMAL_PIXELS * 2, 0, 0)
        \o Alternating(THERMAL_PIXELS * 2)

\* The streams fed to the parser.  frames: the 0-based offsets at which
\* the stream holds a well-formed frame; bad: the offset of a header the
\* parser must reject (-1 when there is none).
Scenarios ==
    { [kind |-> "single", wire |-> FrameA, frames |-> <<0>>, bad |-> -1],
      [kind |-> "tiny", wire |-> FrameTiny, frames |-> <<0>>, bad |-> -1],
      [kind |-> "two", wire |-> FrameA \o FrameB,
       frames |-> <<0, Len(FrameA)>>, bad |-> -1],
      [kind |-> "garbage", wire |-> Garbage \o FrameA,
       frames |-> <<GarbageLen>>, bad |-> -1],
      [kind |-> "garbagetail", wire |-> Garbage \o FrameA \o SubSeq(FrameB, 1, 8),
       frames |-> <<GarbageLen>>, bad |-> -1],
      [kind |-> "zero", wire |-> HeaderZero \o FrameA,
       frames |-> <<HEADER_SIZE>>, bad |-> 0],
      [kind |-> "zeropadded", wire |-> HeaderZero \o Payload(4, 224) \o FrameA,
       frames |-> <<HEADER_SIZE + 4>>, bad |-> 0],
      [kind |-> "huge", wire |-> HeaderHuge \o Payload(4, 224) \o FrameA,
       frames |-> <<HEADER_SIZE + 4>>, bad |-> 0],
      [kind |-> "longstatus", wire |-> FrameA \o FrameLongStatus,
       frames |-> <<0>>, bad |-> Len(FrameA)],
      [kind |-> "minimal", wire |-> FrameMinimal \o Payload(4, 224),
       frames |-> <<0>>, bad |-> -1],
      [kind |-> "trailing", wire |-> FrameA \o Payload(5, 224),
       frames |-> <<0>>, bad |-> -1],
      [kind |-> "short", wire |-> FrameShort, frames |-> <<0>>, bad |-> -1] }

\* buffer_size as given to the constructor: a buffer one frame fills
\* exactly, and one with room for every stream above in a single chunk.
BufferSizes == {Len(FrameA), 2 * Len(FrameA) + GarbageLen}

\* How the caller cuts the stream into chunks: one byte per call, three
\* bytes per call, everything in one call, one call per part of the
\* stream (each frame and each rejected header apart), two calls that
\* split the first frame's magic after its k-th byte, or any cut.
Modes == {"one", "three", "whole", "frames", "split1", "split2", "split3", "any"}

SplitAt(m) == CASE m = "split1" -> 1 [] m = "split2" -> 2 [] OTHER -> 3

\* ---------------------------------------------------------- USBDriver

\* usb_driver.py:17, 21
EP_IN == 133

USB_INTERFACES == <<0, 1, 2>>

\* The device handle usb.core.find returns for the camera.
Handle == Some("FLIR One")

\* USBDriver.__init__
NewDriver == [device |-> None, claimed_interfaces |-> <<>>, initialized |-> FALSE]

\* The operations on the bus, as the log of a session records them.
\* usb.util.claim_interface(device, iface), ok unless it raised USBError
ClaimOp(iface, ok) == [op |-> "claim", iface |-> iface, ok |-> ok]

\* usb.util.release_interface(device, iface)
ReleaseOp(iface) == [op |-> "release", iface |-> iface]

\* device.ctrl_transfer(0x01, 0x0b, wValue, wIndex, timeout=100), ok unless
\* it raised USBError
CtrlOp(wValue, wIndex, ok) ==
    [op |-> "ctrl", bmRequestType |-> 1, bRequest |-> 11, wValue |-> wValue,
     wIndex |-> wIndex, timeout |-> 100, ok |-> ok]

\* What identifies a control transfer: its wValue and wIndex.
StopFrame == <<0, 2>>

StopFileIO == <<0, 1>>

StartFileIO == <<1, 1>>

\* The transfers of USBDriver._initialize, in the order of the code.
Handshake == <<StopFrame, StopFileIO, StartFileIO>>

\* USBDriver._initialize when the first ctrlOk transfers succeed and the
\* next one, if any, raises USBError: the transfers issued (the except
\* clause ends the sequence at the one that raised), and whether
\* _initialized is set.
Initialize(ctrlOk) ==
    [issued |-> [i \in 1..Min(ctrlOk + 1, Len(Handshake)) |->
                    CtrlOp(Handshake[i][1], Handshake[i][2], i <= ctrlOk)],
     initialized |-> ctrlOk >= Len(Handshake)]

\* The claim loop of USBDriver.open when the claims of the interfaces in
\* claimFail raise USBError: the claims issued and the interfaces appended
\* to _claimed_interfaces.
ClaimAll(claimFail) ==
    [issued |-> [i \in 1..Len(USB_INTERFACES) |->
                    ClaimOp(USB_INTERFACES[i], USB_INTERFACES[i] \notin claimFail)],
     appended |-> SelectSeq(USB_INTERFACES, LAMBDA iface : iface \notin claimFail)]

\* USBDriver.open with the claim loop ahead of the test for the device: a
\* variant the code does not have.
DriverOpenClaimFirst(u, log, present, claimFail, ctrlOk) ==
    IF u.device = None /\ ~present
    THEN [usb |-> u, bus |-> ClaimAll(claimFail).issued, exc |-> Some("RuntimeError")]
    ELSE [usb |-> [device |-> IF u.device = None THEN Handle ELSE u.device,
                   claimed_interfaces |->
                       u.claimed_interfaces \o ClaimAll(claimFail).appended,
                   initialized |->
                       u.initialized \/ Initialize(ctrlOk).initialized],
          bus |-> ClaimAll(claimFail).issued \o Initialize(ctrlOk).issued,
          exc |-> None]

\* USBDriver.open on driver u: present is whether usb.core.find finds the
\* camera.  The driver afterwards, the log of the session it starts, and
\* the exception raised (None when open returns True).  Detaching the
\* kernel driver and set_configuration touch no field of the driver and
\* their USBErrors are passed over.
DriverOpen(u, log, present, claimFail, ctrlOk) ==
    IF u.device = None /\ ~present
    THEN [usb |-> u, bus |-> log, exc |-> Some("RuntimeError")]
    ELSE [usb |-> [device |-> IF u.device = None THEN Handle ELSE u.device,
                   claimed_interfaces |->
                       u.claimed_interfaces \o ClaimAll(claimFail).appended,
                   initialized |->
                       u.initialized \/ Initialize(ctrlOk).initialized],
          bus |-> ClaimAll(claimFail).issued \o Initialize(ctrlOk).issued,
          exc |-> None]

\* USBDriver.close releasing every interface of USB_INTERFACES instead of
\* the recorded ones: a variant the code does not have.
DriverCloseReleaseAll(u, log, stopOk) ==
    IF u.device = None
    THEN [usb |-> u, bus |-> log]
    ELSE [usb |-> NewDriver,
          bus |-> log \o <<CtrlOp(StopFrame[1], StopFrame[2], StopFrame[2] \in stopOk),
                           CtrlOp(StopFileIO[1], StopFileIO[2], StopFileIO[2] \in stopOk)>>
                      \o [i \in 1..Len(USB_INTERFACES) |-> ReleaseOp(USB_INTERFACES[i])]]

\* USBDriver.close on driver u: both stop transfers are issued whether or
\* not they raise (stopOk holds the wIndex of those that succeed), then
\* every recorded interface is released.
DriverClose(u, log, stopOk) ==
    IF u.device = None
    THEN [usb |-> u, bus |-> log]
    ELSE [usb |-> NewDriver,
          bus |-> log \o <<CtrlOp(StopFrame[1], StopFrame[2], StopFrame[2] \in stopOk),
                           CtrlOp(StopFileIO[1], StopFileIO[2], StopFileIO[2] \in stopOk)>>
                      \o [i \in 1..Len(u.claimed_interfaces) |->
                            ReleaseOp(u.claimed_interfaces[i])]]

\* What device.read(EP_IN, BUFFER_SIZE, timeout) does: it returns bytes, or
\* raises USBTimeoutError, or raises USBError with errno 110 (timed out),
\* 19 (no such device) or another errno.
ReadOutcomes == {"data", "USBTimeoutError", "errno110", "errno19", "errnoOther"}

\* USBDriver.read on driver u for such an outcome: the value returned and
\* the exception raised to the caller.
DriverRead(u, outcome, data) ==
    IF u.device = None THEN [ret |-> None, exc |-> None]
    ELSE IF outcome = "data" THEN [ret |-> Some(data), exc |-> None]
    ELSE IF outcome = "USBTimeoutError" THEN [ret |-> None, exc |-> None]
    ELSE IF outcome \in {"errno110", "errno19"} THEN [ret |-> None, exc |-> None]
    ELSE [ret |-> None, exc |-> None]

\* --------------------------------------------------------------- state

VARIABLES
    parser,         \* the FrameParser fed by the caller
    wire,           \* the bytes on the wire
    kind,           \* the scenario the wire was built from
    frames,         \* offsets of the well-formed frames on the wire
    bad,            \* offset of the header to reject, or -1
    mode,           \* how the caller cuts the wire into chunks
    pos,            \* number of bytes of the wire fed so far
    returned,       \* the value the last add_chunk call returned
    emitted,        \* the frames returned so far, in order
    extra,          \* whether add_chunk was called again after the call
                    \* that fed the last byte of the last frame
    wasReset,       \* whether reset() has been called
    fresh,          \* a parser constructed when reset() was called
    freshReturned,  \* what the last add_chunk call on fresh returned
    bytewise,       \* a parser given the same bytes one per call
    bwEmitted,      \* the frames bytewise returned so far
    fields,         \* the four sizes of the header the chunks carry
    calls,          \* number of add_chunk and reset calls made
    raised,         \* the exception the last add_chunk call raised
    usb,            \* the USBDriver of the camera facade
    connected,      \* FLIRCamera._connected
    plugged,        \* whether the camera is on the bus
    bus,            \* the bus operations of the session, bulk reads apart
    unstartedRead,  \* whether a bulk read of the session was issued
                    \* before its start-FILEIO transfer
    pc,             \* where the caller of FLIRCamera.read is: "idle"
                    \* between calls, "loop" inside the while loop,
                    \* "checked" inside USBDriver.read after its test of
                    \* self.device
    elapsed,        \* time.time() - start_time of the read call, in ticks
    last,           \* the last call on the facade: its name, the value it
                    \* returned, the exception it raised, the exception
                    \* the driver raised to it, and whether a fatal
                    \* transport error occurred during it
    usbRead,        \* the last USBDriver.read: the outcome of the bulk
                    \* read, the value returned and the exception raised
    closer,         \* where a second thread is in FLIRCamera.disconnect:
                    \* "idle" outside it, then "closing", "stopped",
                    \* "released" and "cleared" as USBDriver.close goes on
    calibration,    \* the calibration record of the ThermalContext
    numpy,          \* the type promotion rules of the installed NumPy
    image,          \* the matrix of raw counts given to raw2temp
    matrixOut,      \* raw2temp(image)
    scalarOut,      \* raw2temp(image[i][j]) for every cell
    points,         \* MEASUREMENT_POINTS of the web viewer
    handlers        \* where each request thread of the viewer is in
                    \* add_spot, and the point it was asked to add

\* The variables of the runs that feed a stream from the wire: the parser
\* and what its last call returned, and the rest.
streamRest == <<wire, kind, frames, bad, mode, pos, emitted, extra, wasReset,
                fresh, freshReturned, bytewise, bwEmitted>>

streamVars == <<parser, returned, streamRest>>

\* The variables of the runs that feed arbitrary chunks.
chunkVars == <<fields, calls, raised>>

\* The variables of the camera facade and its transport.
camVars == <<usb, connected, plugged, bus, unstartedRead, pc, elapsed, last,
             usbRead, closer>>

\* The variables of the web viewer's measurement points.
viewVars == <<points, handlers>>

\* The variables of the radiometric conversion, and those of the viewer
\* that shows its temperatures.
thermVars == <<calibration, numpy, image, matrixOut, scalarOut, viewVars>>

\* What a run that feeds a stream from the wire leaves alone.
otherVars == <<chunkVars, camVars, thermVars>>

vars == <<streamVars, otherVars>>

\* The variables of the arbitrary-chunk runs, at rest.
ChunksIdle == fields = <<>> /\ calls = 0 /\ raised = None

\* The variables of the camera, at rest.
NoCall ==
    [op |-> "none", ret |-> None, exc |-> None, driverExc |-> None, fatal |-> FALSE]

NoRead == [outcome |-> "none", ret |-> None, exc |-> None]

CamIdle ==
    /\ usb = NewDriver /\ connected = FALSE /\ plugged = FALSE /\ bus = <<>>
    /\ unstartedRead = FALSE /\ pc = "idle" /\ elapsed = 0
    /\ last = NoCall /\ usbRead = NoRead /\ closer = "idle"

\* The variables of the radiometric conversion, at rest.
ConversionIdle ==
    /\ calibration = <<>> /\ numpy = "none" /\ image = <<>>
    /\ matrixOut = <<>> /\ scalarOut = <<>>

\* The request threads of the threaded server (web_viewer.py:351) that the
\* model runs side by side.
Handlers == {"h1", "h2"}

\* A request thread outside add_spot.
NoRequest == [at |-> "idle", point |-> <<>>]

\* The viewer as the module leaves it when loaded (web_viewer.py:21).
ViewIdle == points = <<>> /\ handlers = [h \in Handlers |-> NoRequest]

ThermIdle == ConversionIdle /\ ViewIdle

OthersIdle == ChunksIdle /\ CamIdle /\ ThermIdle

Init ==
    \E sc \in Scenarios, size \in BufferSizes, m \in Modes :
        /\ parser = NewParser(size)
        /\ wire = sc.wire
        /\ kind = sc.kind
        /\ frames = sc.frames
        /\ bad = sc.bad
        /\ mode = m
        /\ pos = 0
        /\ returned = None
        /\ emitted = <<>>
        /\ extra = FALSE
        /\ wasReset = FALSE
        /\ fresh = NewParser(size)
        /\ freshReturned = None
        /\ bytewise = NewParser(size)
        /\ bwEmitted = <<>>
        /\ OthersIdle

\* The offsets at which a part of the stream starts or the stream ends.
Boundaries ==
    {Len(wire)} \cup {frames[i] : i \in DOMAIN frames} \cup ({bad} \cap Nat)

\* The chunk lengths the caller's mode allows at this point.
ChunkLens ==
    LET left == Len(wire) - pos
        next == CHOOSE b \in Boundaries :
                    b > pos /\ \A c \in Boundaries : c > pos => b <= c
        cut == frames[1] + SplitAt(mode)
    IN  CASE mode = "one" -> {1}
          [] mode = "three" -> {Min(3, left)}
          [] mode = "whole" -> {left}
          [] mode = "frames" -> IF left = 0 THEN {} ELSE {next - pos}
          [] mode \in {"split1", "split2", "split3"} ->
                IF pos < cut THEN {cut - pos} ELSE {left}
          [] OTHER -> (1..MaxChunk) \cup {left}
                        \cup (IF left = 0 THEN {} ELSE {next - pos})

\* add_chunk applied to each byte of data in turn: the parser afterwards
\* and the frames returned.  data is halved until single bytes are left;
\* the test on buffer_ptr is never true and only has p evaluated before
\* the descent.
RECURSIVE FeedBytes(_, _, _)
FeedBytes(p, out, data) ==
    IF data = <<>> \/ p.buffer_ptr < 0 THEN [parser |-> p, out |-> out]
    ELSE IF Len(data) = 1
    THEN LET r == AddChunk(p, data)
         IN  [parser |-> r.parser, out |-> out \o r.ret]
    ELSE LET half == Len(data) \div 2
             h == FeedBytes(p, out, SubSeq(data, 1, half))
         IN  FeedBytes(h.parser, h.out, SubSeq(data, half + 1, Len(data)))

\* One add_chunk(data) call by the caller.
Call(data) ==
    LET r == AddChunk(parser, data)
        f == AddChunk(fresh, data)
        b == FeedBytes(bytewise, bwEmitted, data)
    IN  /\ parser' = r.parser
        /\ returned' = r.ret
        /\ emitted' = emitted \o r.ret
        /\ fresh' = IF wasReset THEN f.parser ELSE fresh
        /\ freshReturned' = IF wasReset THEN f.ret ELSE freshReturned
        /\ bytewise' = b.parser
        /\ bwEmitted' = b.out

\* The offset at which the frame starting at offset o ends on the wire.
FrameEnd(o) == o + HEADER_SIZE + UnpackU32LE(wire, o + 8)

LastFrameEnd == FrameEnd(frames[Len(frames)])

\* A call made now comes after the last frame was fed completely.
ExtraAfterCall == extra \/ pos >= LastFrameEnd

\* The caller feeds the next n bytes of the wire.
Feed ==
    \E n \in ChunkLens :
        /\ n >= 1
        /\ pos + n <= Len(wire)
        /\ Call(SubSeq(wire, pos + 1, pos + n))
        /\ pos' = pos + n
        /\ extra' = ExtraAfterCall
        /\ UNCHANGED <<wire, kind, frames, bad, mode, wasReset, otherVars>>

\* The caller calls add_chunk with no bytes (a read that returned nothing).
FeedEmpty ==
    /\ mode = "any"
    /\ Call(<<>>)
    /\ extra' = ExtraAfterCall
    /\ UNCHANGED <<wire, kind, frames, bad, mode, pos, wasReset, otherVars>>

\* The points of the stream at which the caller may call reset(): its
\* start and end, the start of every frame and of the header to reject,
\* and the point where a frame's header is complete and its payload is not.
ResetPoints ==
    {0, Len(wire)} \cup {frames[i] : i \in DOMAIN frames}
        \cup {frames[i] + HEADER_SIZE + 4 : i \in DOMAIN frames}
        \cup ({bad} \cap Nat)

\* The caller calls reset(); fresh is constructed for the comparison.
Reset ==
    /\ mode = "any"
    /\ pos \in ResetPoints
    /\ parser' = ResetParser(parser)
    /\ fresh' = NewParser(parser.buffer_size)
    /\ freshReturned' = None
    /\ returned' = None
    /\ bytewise' = ResetParser(bytewise)
    /\ wasReset' = TRUE
    /\ UNCHANGED <<wire, kind, frames, bad, mode, pos, emitted, extra,
                   bwEmitted, otherVars>>

Next == Feed \/ FeedEmpty \/ Reset

Spec == Init /\ [][Next]_vars

\* ------------------------------------------------- frames on the wire

\* The bytes of an Optional byte string (None has none).
Bytes(opt) == IF opt = None THEN <<>> ELSE opt[1]

\* n bytes of the wire from offset o on.
WireSlice(o, n) == SubSeq(wire, o + 1, o + n)

\* The image of a frame, back as big-endian bytes in row-major order.
ThermalBytes(f) ==
    [k \in 1..(2 * THERMAL_PIXELS) |->
        LET px == (k - 1) \div 2
            v == f.thermal_raw[(px \div THERMAL_WIDTH) + 1][(px % THERMAL_WIDTH) + 1]
        IN  IF k % 2 = 1 THEN v \div 256 ELSE v % 256]

\* f is the frame the wire holds at offset o: a magic at o, f's four sizes
\* in the header, and f's image, JPEG and status blocks in the bytes that
\* follow, all of them bytes of the wire.
IsWireFrame(f, o) ==
    /\ o + HEADER_SIZE + f.thermal_size + f.jpeg_size + f.status_size <= Len(wire)
    /\ WireSlice(o, 4) = MAGIC_BYTES
    /\ WireSlice(o + 8, 16) =
            PackU32LE(f.frame_size) \o PackU32LE(f.thermal_size)
                \o PackU32LE(f.jpeg_size) \o PackU32LE(f.status_size)
    /\ f.thermal_size >= 2 * THERMAL_PIXELS
    /\ ThermalBytes(f) = WireSlice(o + HEADER_SIZE, 2 * THERMAL_PIXELS)
    /\ Bytes(f.visible_jpeg) = WireSlice(o + HEADER_SIZE + f.thermal_size, f.jpeg_size)
    /\ Bytes(f.status_data) =
            WireSlice(o + HEADER_SIZE + f.thermal_size + f.jpeg_size, f.status_size)

\* The frames emitted so far are the first frames of the wire, in order.
EmittedInWireOrder ==
    /\ Len(emitted) <= Len(frames)
    /\ \A i \in DOMAIN emitted : IsWireFrame(emitted[i], frames[i])

\* Every frame of the wire has been emitted, in order, and nothing else.
AllEmitted == Len(emitted) = Len(frames) /\ EmittedInWireOrder

\* The whole stream has been fed.
AllFed == pos = Len(wire)

\* The buffer has room for the whole stream and more.
RoomyBuffer == parser.buffer_size > Len(wire)

\* -------------------------------------------------------------- claims

\* C1: one well-formed frame (28 + frame_size within the capacity) fed to
\* an empty parser one byte per call, or three bytes per call, is returned
\* by exactly one call, with the sizes and blocks that were fed.
C1_RoundTripSmallChunks ==
    (kind = "single" /\ mode \in {"one", "three"}) =>
        /\ EmittedInWireOrder
        /\ AllFed => AllEmitted

C3_TwoFramesOneChunk ==
    (kind = "two" /\ mode = "whole" /\ RoomyBuffer /\ AllFed) => AllEmitted

\* C4: for a stream of well-formed frames that each fit the buffer, in
\* any chunking, the frames emitted are the frames of the wire, in order,
\* none dropped.
C4_WireOrderNoDrop ==
    (kind \in {"single", "two"} /\ ~wasReset) =>
        /\ EmittedInWireOrder
        /\ AllFed => AllEmitted

\* C5: every emitted frame is made of bytes of the input: its sizes and
\* its three blocks are one contiguous region of the stream that starts
\* at a magic sequence.
C5_NoHallucinatedFrames ==
    \A i \in DOMAIN emitted :
        \E o \in 0..(Len(wire) - HEADER_SIZE) : IsWireFrame(emitted[i], o)

\* C6: a valid frame preceded by garbage without a magic sequence is
\* emitted exactly once and unchanged, at the latest by the add_chunk call
\* that follows the call delivering the frame's last byte.
C6_ResyncWithinOneCall ==
    (kind \in {"garbage", "garbagetail"} /\ ~wasReset /\ RoomyBuffer) =>
        /\ EmittedInWireOrder
        /\ extra => AllEmitted

\* C7: a frame whose magic is split across two add_chunk calls, with or
\* without garbage before it, has been emitted with its content once its
\* bytes are fed.
C7_SplitMagic ==
    (kind \in {"single", "garbage"} /\ mode \in {"split1", "split2", "split3"}
        /\ RoomyBuffer /\ AllFed) => AllEmitted

\* C8: a header with frame_size 0 or beyond the buffer is rejected: no
\* frame is emitted for it, and the valid frame fed in the calls after it
\* is emitted correctly.
C8_BadFrameSizeRejected ==
    (kind \in {"zero", "zeropadded", "huge"} /\ mode = "frames" /\ RoomyBuffer) =>
        /\ EmittedInWireOrder
        /\ AllFed => AllEmitted

\* C9: every emitted frame satisfies thermal_size + jpeg_size +
\* status_size <= frame_size and frame_size + 28 <= capacity.
C9_EmittedSizesConsistent ==
    \A i \in DOMAIN emitted :
        /\ emitted[i].thermal_size + emitted[i].jpeg_size + emitted[i].status_size
                <= emitted[i].frame_size
        /\ emitted[i].frame_size + HEADER_SIZE <= parser.buffer_size

\* C10: after reset(), every add_chunk call returns what the same call
\* returns on a parser constructed at the time of the reset.
C10_ResetLikeFresh == wasReset => returned = freshReturned

\* ---------------------------------------------------------- exceptions

\* struct.unpack_from('<I', buffer, off) raises struct.error when fewer
\* than 4 bytes of the buffer follow off.
UnpackRaises(buf, off) == Len(buf) - off < 4

\* np.frombuffer(bytes, dtype='>u2').reshape((THERMAL_HEIGHT, THERMAL_WIDTH))
\* raises ValueError when the length is odd or is not that of one image.
FromBufferRaises(bytes) ==
    Len(bytes) % 2 # 0 \/ Len(bytes) \div 2 # THERMAL_PIXELS

\* The exception _try_parse_frame raises on p, None when it returns.  The
\* slices, the comparisons and the slice assignments of the method raise
\* for no operand; unpack_from and frombuffer/reshape are what can.
TryParseFrameException(p) ==
    IF HeaderIncomplete(p) THEN None
    ELSE IF \E off \in {8, 12, 16, 20} : UnpackRaises(p.buffer, off)
    THEN Some("struct.error")
    ELSE
    LET frame_size == UnpackU32LE(p.buffer, 8)
        thermal_size == UnpackU32LE(p.buffer, 12)
        jpeg_size == UnpackU32LE(p.buffer, 16)
        thermal_bytes == Slice(p.buffer, HEADER_SIZE, HEADER_SIZE + thermal_size)
    IN  IF /\ ~BadFrameSize(p, frame_size)
           /\ p.buffer_ptr >= HEADER_SIZE + frame_size
           /\ ~BadSubSizes(p, thermal_size, jpeg_size)
           /\ Len(thermal_bytes) >= THERMAL_PIXELS * 2
           /\ FromBufferRaises(Slice(thermal_bytes, 0, THERMAL_PIXELS * 2))
        THEN Some("ValueError")
        ELSE None

\* The parser once add_chunk has appended data (frame_parser.py:63-64).
Appended(p, data) ==
    [p EXCEPT !.buffer = SliceAssign(p.buffer, p.buffer_ptr,
                                     p.buffer_ptr + Len(data), data),
              !.buffer_ptr = p.buffer_ptr + Len(data)]

\* The exception add_chunk(data) raises on p, None when it returns.
AddChunkException(p, data) ==
    IF data = <<>> \/ Overflows(p, data) THEN None
    ELSE LET q == Appended(p, data)
         IN  IF q.buffer_ptr >= 4 /\ Slice(q.buffer, 0, 4) = MAGIC_BYTES
             THEN TryParseFrameException(q)
             ELSE None

\* add_chunk(data) with its exceptions: the parser afterwards, the value
\* returned and the exception raised.  An exception leaves the parser as
\* it was when raised, with data appended.
AddChunkOrRaise(p, data) ==
    LET exc == AddChunkException(p, data)
    IN  IF exc # None
        THEN [parser |-> Appended(p, data), ret |-> None, exc |-> exc]
        ELSE [parser |-> AddChunk(p, data).parser,
              ret |-> AddChunk(p, data).ret, exc |-> None]

\* ------------------------------------------------------ arbitrary chunks

\* Bounds: a buffer too small for a header, and the number of calls.
TinyBuffer == 16

\* A buffer shorter than the three bytes the parser keeps when it finds no
\* magic (FrameParser takes any buffer_size, frame_parser.py:40-43).
ShortBuffer == 2

MaxCalls == 3

\* The largest header field of the model (it stands for 2^32 - 1).
HugeField == UnpackU32LE(HeaderHuge, 8)

\* The values of the header fields: frame_size and thermal_size, jpeg_size,
\* status_size.
FrameSizes == {0, 3, THERMAL_PIXELS * 2, HugeField}

JpegSizes == {0, 1, HugeField}

StatusSizes == {0, HugeField}

\* buffer_size as given to the constructor.
ChunkBufferSizes == {ShortBuffer, TinyBuffer, HEADER_SIZE + THERMAL_PIXELS * 2 + 8}

\* The header the chunks carry.
FieldsHeader == Header(fields[1], fields[2], fields[3], fields[4])

\* The chunks a call may be given: none, one and two bytes, the start of
\* the header, the header, the header with an image, payload bytes, and a
\* chunk longer than any buffer.
ChunkPool ==
    { <<>>, <<MAGIC_BYTES[1]>>, SubSeq(MAGIC_BYTES, 2, 3),
      SubSeq(FieldsHeader, 1, 8), FieldsHeader,
      FieldsHeader \o Payload(THERMAL_PIXELS * 2, 16),
      Payload(4, 64),
      Garbage \o FieldsHeader \o Payload(THERMAL_PIXELS * 2 + 8, 96) }

\* The variables of the stream runs that no chunk run uses, at rest.
StreamRestIdle ==
    /\ wire = <<>> /\ kind = "chunks" /\ frames = <<>> /\ bad = -1
    /\ mode = "chunks" /\ pos = 0 /\ emitted = <<>> /\ extra = FALSE
    /\ wasReset = FALSE /\ fresh = None /\ freshReturned = None
    /\ bytewise = None /\ bwEmitted = <<>>

InitChunks ==
    \E f \in FrameSizes, t \in FrameSizes, j \in JpegSizes, s \in StatusSizes,
       size \in ChunkBufferSizes :
        /\ fields = <<f, t, j, s>>
        /\ parser = NewParser(size)
        /\ returned = None
        /\ calls = 0
        /\ raised = None
        /\ StreamRestIdle
        /\ CamIdle
        /\ ThermIdle

\* The four header fields add_chunk(data) may read on p stay below 2^29,
\* each with a highest byte below 32, so that the sums the parser forms
\* stay in the range of TLC's integers.
FieldsInRange(p, data) ==
    \/ data = <<>>
    \/ Overflows(p, data)
    \/ \A off \in {8, 12, 16, 20} :
            Len(p.buffer) >= off + 4 => Appended(p, data).buffer[off + 4] < 32

\* One add_chunk call with a chunk of the pool.
ChunkCall ==
    \E data \in ChunkPool :
        /\ calls < MaxCalls
        /\ FieldsInRange(parser, data)
        /\ parser' = AddChunkOrRaise(parser, data).parser
        /\ returned' = AddChunkOrRaise(parser, data).ret
        /\ raised' = AddChunkOrRaise(parser, data).exc
        /\ calls' = calls + 1
        /\ UNCHANGED <<fields, streamRest, camVars, thermVars>>

\* One reset call.
ChunkReset ==
    /\ calls < MaxCalls
    /\ parser' = ResetParser(parser)
    /\ returned' = None
    /\ raised' = None
    /\ calls' = calls + 1
    /\ UNCHANGED <<fields, streamRest, camVars, thermVars>>

NextChunks == ChunkCall \/ ChunkReset

SpecChunks == InitChunks /\ [][NextChunks]_vars

\* C11: add_chunk raises for no data: in every parser state that add_chunk
\* and reset calls reach, and for every chunk (empty, shorter than 3 bytes,
\* longer than the buffer, with header fields up to the largest), the call
\* returns a frame or None.
C11_AddChunkNeverRaises ==
    /\ raised = None
    /\ returned = None \/ (Len(returned) = 1 /\ returned[1].frame_size \in FrameSizes)

\* C11's case: the last of MaxCalls calls returned a frame for a header
\* that declares the largest status_size.
C11_Witness ==
    /\ calls = MaxCalls
    /\ returned # None
    /\ returned[1].status_size = HugeField
    /\ raised = None

\* Every pixel of frame f has the raw count v.
AllPixels(f, v) ==
    \A r \in 1..THERMAL_HEIGHT, c \in 1..THERMAL_WIDTH : f.thermal_raw[r][c] = v

\* The minimal frame was emitted, once, with every pixel at MinimalRaw.
MinimalEmitted ==
    /\ Len(emitted) = 1
    /\ AllPixels(emitted[1], MinimalRaw)
    /\ emitted[1].thermal_size = THERMAL_PIXELS * 2
    /\ emitted[1].visible_jpeg = None
    /\ emitted[1].status_data = None

\* C12 as stated: once an empty parser has been fed the minimal frame's
\* header (frame_size = thermal_size + 4, no JPEG, no status) and its one
\* image of alternating 0x10 0x00, one frame has been emitted, and every
\* raw pixel of it is 4096.
C12_MinimalFrameEmitted ==
    (kind = "minimal" /\ RoomyBuffer /\ ~wasReset /\ pos >= Len(FrameMinimal)) =>
        MinimalEmitted

\* C12, amended: the header and the image alone yield no frame, since
\* frame_size announces 4 more payload bytes; once those 4 bytes are fed
\* too, one frame has been emitted, and every raw pixel of it is 4096.
C12_MinimalFrameOnceComplete ==
    (kind = "minimal" /\ RoomyBuffer /\ ~wasReset) =>
        /\ pos < Len(wire) => emitted = <<>>
        /\ AllFed => MinimalEmitted

\* C12's case: the call that fed the last of the 4 bytes returned the frame.
C12_Witness ==
    /\ kind = "minimal" /\ RoomyBuffer /\ ~wasReset /\ AllFed
    /\ MinimalEmitted
    /\ returned = Some(emitted[1])

\* ----------------------------------------------------------- FLIRCamera

\* Bounds: the timeout of a read call in ticks of the clock, and the bytes
\* one bulk read returns at most (usb_driver.py:24, 16384 in the source).
ReadTimeout == 2

BUFFER_SIZE == 32

\* The stream the camera sends: two frames.
CamWire == FrameA \o FrameB

\* FLIRCamera._make_frame, without the statistics and the colours: the
\* image, and the decoded JPEG when it is longer than 100 bytes.
MakeFrame(parsed) ==
    [thermal_raw |-> parsed.thermal_raw,
     visible |-> IF Len(Bytes(parsed.visible_jpeg)) > 100
                 THEN Some("decoded") ELSE None]

InitCamera ==
    /\ parser = NewParser(2 * Len(FrameA) + GarbageLen)
    /\ returned = None
    /\ wire = CamWire /\ kind = "two" /\ frames = <<0, Len(FrameA)>> /\ bad = -1
    /\ mode = "camera" /\ pos = 0 /\ emitted = <<>> /\ extra = FALSE
    /\ wasReset = FALSE /\ fresh = None /\ freshReturned = None
    /\ bytewise = None /\ bwEmitted = <<>>
    /\ ChunksIdle
    /\ ThermIdle
    /\ usb = NewDriver
    /\ connected = FALSE
    /\ plugged \in BOOLEAN
    /\ bus = <<>>
    /\ unstartedRead = FALSE
    /\ pc = "idle"
    /\ elapsed = 0
    /\ last = NoCall
    /\ usbRead = NoRead
    /\ closer = "idle"

\* What no action of the camera changes, and the thread of disconnect,
\* which is at rest unless the run interleaves it with read.
camOthers == <<wire, kind, frames, bad, mode, extra, wasReset, fresh,
               freshReturned, bytewise, bwEmitted, chunkVars, thermVars, closer>>

\* The camera is plugged in, or pulled.
Plug ==
    /\ ~plugged
    /\ plugged' = TRUE
    /\ UNCHANGED <<parser, returned, pos, emitted, usb, connected, bus,
                   unstartedRead, pc, elapsed, last, usbRead, camOthers>>

Unplug ==
    /\ plugged
    /\ plugged' = FALSE
    /\ UNCHANGED <<parser, returned, pos, emitted, usb, connected, bus,
                   unstartedRead, pc, elapsed, last, usbRead, camOthers>>

\* Python's True and False as values a call returns (records, as frames
\* are).
True == [bool |-> TRUE]

False == [bool |-> FALSE]

\* The record of a finished call on the facade.
Called(op, ret, driverExc) ==
    [op |-> op, ret |-> ret, exc |-> None, driverExc |-> driverExc, fatal |-> FALSE]

\* The interfaces whose claim may raise USBError: none, one, or all.
ClaimFaults == {{}, {1}, {0, 1, 2}}

\* What the bus may do to open: without the camera every claim and the
\* first control transfer raise USBError.
OpenFaults ==
    {f \in [claimFail : ClaimFaults, ctrlOk : 0..Len(Handshake)] :
        plugged \/ (f.claimFail = {0, 1, 2} /\ f.ctrlOk = 0)}

\* FLIRCamera.connect
Connect ==
    /\ pc = "idle"
    /\ IF connected
       THEN /\ last' = Called("connect", Some(True), None)
            /\ UNCHANGED <<parser, usb, connected, bus, unstartedRead>>
       ELSE \E f \in OpenFaults :
            LET o == DriverOpen(usb, bus, plugged, f.claimFail, f.ctrlOk)
            IN  /\ usb' = o.usb
                /\ bus' = o.bus
                /\ IF o.exc # None
                   THEN /\ last' = Called("connect", Some(False), o.exc)
                        /\ UNCHANGED <<parser, connected, unstartedRead>>
                   ELSE /\ parser' = ResetParser(parser)
                        /\ connected' = TRUE
                        /\ unstartedRead' = FALSE
                        /\ last' = Called("connect", Some(True), None)
    /\ UNCHANGED <<returned, pos, emitted, plugged, pc, elapsed, usbRead, camOthers>>

\* The stop transfers of close that succeed (by wIndex): both, or neither.
StopFaults == {{StopFrame[2], StopFileIO[2]}, {}}

\* FLIRCamera.disconnect
Disconnect ==
    /\ pc = "idle"
    /\ IF connected
       THEN \E stopOk \in StopFaults :
            /\ plugged \/ stopOk = {}
            /\ usb' = DriverClose(usb, bus, stopOk).usb
            /\ bus' = DriverClose(usb, bus, stopOk).bus
            /\ connected' = FALSE
       ELSE UNCHANGED <<usb, bus, connected>>
    /\ last' = Called("disconnect", None, None)
    /\ UNCHANGED <<parser, returned, pos, emitted, plugged, unstartedRead, pc,
                   elapsed, usbRead, camOthers>>

\* USBDriver.close called on the driver of a facade that is not
\* connected: a close after the close of disconnect, or before any open.
CloseDriver ==
    /\ pc = "idle"
    /\ ~connected
    /\ \E stopOk \in StopFaults :
        /\ plugged \/ stopOk = {}
        /\ usb' = DriverClose(usb, bus, stopOk).usb
        /\ bus' = DriverClose(usb, bus, stopOk).bus
    /\ last' = Called("close", None, None)
    /\ UNCHANGED <<parser, returned, pos, emitted, connected, plugged,
                   unstartedRead, pc, elapsed, usbRead, camOthers>>

\* FLIRCamera.read entering its loop without the test of _connected: a
\* variant the code does not have.
ReadBeginUnchecked ==
    /\ pc = "idle"
    /\ last' = Called("read", None, None)
    /\ pc' = "loop" /\ elapsed' = 0
    /\ UNCHANGED <<parser, returned, pos, emitted, usb, connected, plugged, bus,
                   unstartedRead, usbRead, camOthers>>

\* FLIRCamera.read up to its loop (camera.py:93-96).
ReadBegin ==
    /\ pc = "idle"
    /\ last' = Called("read", None, None)
    /\ IF connected
       THEN pc' = "loop" /\ elapsed' = 0
       ELSE UNCHANGED <<pc, elapsed>>
    /\ UNCHANGED <<parser, returned, pos, emitted, usb, connected, plugged, bus,
                   unstartedRead, usbRead, camOthers>>

\* What a bulk read may do now.
BulkOutcomes ==
    IF ~plugged THEN {"errno19"}
    ELSE {"USBTimeoutError", "errno110", "errnoOther"}
            \cup (IF pos < Len(wire) THEN {"data"} ELSE {})

\* The start-FILEIO transfer of the session has been issued.
StartIssued ==
    \E i \in DOMAIN bus :
        bus[i].op = "ctrl" /\ <<bus[i].wValue, bus[i].wIndex>> = StartFileIO

\* One turn of the loop of FLIRCamera.read (camera.py:98-107): usb.read is
\* given the whole timeout, and takes it when the bulk read times out; any
\* other turn takes one tick.
ReadIter ==
    /\ pc = "loop"
    /\ elapsed < ReadTimeout
    /\ \E outcome \in BulkOutcomes :
        LET data == SubSeq(wire, pos + 1, Min(pos + BUFFER_SIZE, Len(wire)))
            r == DriverRead(usb, outcome, data)
            a == AddChunk(parser, Bytes(r.ret))
            got == usb.device # None /\ outcome = "data"
        IN  /\ usbRead' = [outcome |-> outcome, ret |-> r.ret, exc |-> r.exc]
            /\ unstartedRead' = (unstartedRead \/ (usb.device # None /\ ~StartIssued))
            /\ elapsed' = elapsed + (IF outcome \in {"USBTimeoutError", "errno110"}
                                     THEN ReadTimeout ELSE 1)
            /\ pos' = IF got THEN pos + Len(data) ELSE pos
            /\ IF r.ret = None
               THEN /\ last' = [last EXCEPT !.fatal =
                                    @ \/ outcome \in {"errno19", "errnoOther"}]
                    /\ UNCHANGED <<parser, returned, emitted, pc>>
               ELSE /\ parser' = a.parser
                    /\ returned' = a.ret
                    /\ emitted' = emitted \o a.ret
                    /\ IF a.ret # None
                       THEN /\ pc' = "idle"
                            /\ last' = [last EXCEPT !.ret = Some(MakeFrame(a.ret[1]))]
                       ELSE UNCHANGED <<pc, last>>
    /\ UNCHANGED <<usb, connected, plugged, bus, camOthers>>

\* The loop of FLIRCamera.read ends at the deadline (camera.py:98, 109).
ReadDeadline ==
    /\ pc = "loop"
    /\ elapsed >= ReadTimeout
    /\ pc' = "idle"
    /\ last' = [last EXCEPT !.ret = None]
    /\ UNCHANGED <<parser, returned, pos, emitted, usb, connected, plugged, bus,
                   unstartedRead, elapsed, usbRead, camOthers>>

NextCamera ==
    \/ Plug \/ Unplug
    \/ Connect \/ Disconnect \/ CloseDriver
    \/ ReadBegin \/ ReadIter \/ ReadDeadline

SpecCamera == InitCamera /\ [][NextCamera]_vars

\* A turn of the loop as the clock shows it: under SpecCamera the steps
\* that advance the clock inside the loop are the ReadIter steps, and one
\* is possible whenever the loop is before its deadline.
LoopTurn ==
    /\ pc = "loop"
    /\ elapsed < ReadTimeout
    /\ elapsed' \in (elapsed + 1)..(elapsed + ReadTimeout)

\* The thread inside FLIRCamera.read keeps running, and every bulk read
\* returns within its timeout.
SpecCameraLive == SpecCamera /\ WF_elapsed(LoopTurn) /\ WF_vars(ReadDeadline)

\* ------------------------------------------------------ handshake order

\* The log of an open whose handshake went as laid down: the three claims,
\* then stop-FRAME, stop-FILEIO and start-FILEIO, each with bmRequestType
\* 0x01, bRequest 0x0B and a timeout of 100 ms.
HandshakeInOrder(log) ==
    /\ Len(log) = Len(USB_INTERFACES) + Len(Handshake)
    /\ \A i \in 1..Len(USB_INTERFACES) :
        log[i].op = "claim" /\ log[i].iface = USB_INTERFACES[i]
    /\ \A i \in 1..Len(Handshake) :
        LET t == log[Len(USB_INTERFACES) + i]
        IN  /\ t.op = "ctrl"
            /\ <<t.bmRequestType, t.bRequest, t.timeout>> = <<1, 11, 100>>
            /\ <<t.wValue, t.wIndex>> = Handshake[i]

\* C13 — In a session the open issued the control transfers stop-FRAME,
\* stop-FILEIO, start-FILEIO in this order after the claims of the
\* interfaces, and no bulk read on endpoint 0x85 happens in the session
\* before start-FILEIO has been issued.
C13_HandshakeBeforeReads ==
    /\ connected => HandshakeInOrder(bus)
    /\ ~unstartedRead

\* --------------------------------------------------- read error mapping

\* C14 — USBDriver.read returns None on a USB timeout and on a
\* no-such-device error, and on any other USB error it raises a typed
\* error to its caller instead of returning None.
C14_ReadErrorMapping ==
    /\ usbRead.outcome \in {"USBTimeoutError", "errno110", "errno19"} =>
        usbRead.ret = None /\ usbRead.exc = None
    /\ usbRead.outcome = "errnoOther" => usbRead.exc # None

\* ------------------------------------------------ transport-fatal errors

\* C15 — A read of the facade during which the device disappeared or a
\* bulk read failed with a USB error other than a timeout has raised the
\* error to its caller and left the facade not connected.
C15_FatalPropagatedAndClosed ==
    (last.op = "read" /\ pc = "idle" /\ last.fatal) =>
        last.exc # None /\ ~connected

\* ------------------------------------------------- open without a device

\* C16 — A facade that is not connected holds no device handle, and its
\* connect with no camera on the bus fails inside the driver with the
\* device-not-found error (RuntimeError) and changes nothing: no claim and
\* no control transfer is issued, the driver keeps its fields and has no
\* handle and no claimed interface, connect returns False and the facade
\* stays not connected.
C16_OpenWithoutDevice ==
    /\ [](~connected => usb = NewDriver)
    /\ [][(Connect /\ ~connected /\ ~plugged) =>
            /\ last'.driverExc = Some("RuntimeError")
            /\ last'.ret = Some(False)
            /\ bus' = bus
            /\ usb' = usb
            /\ usb'.device = None
            /\ usb'.claimed_interfaces = <<>>
            /\ ~connected']_vars

\* A connect has failed for want of a device after an earlier session,
\* whose log is as that session left it.
C16_Witness ==
    /\ last.op = "connect"
    /\ last.driverExc = Some("RuntimeError")
    /\ last.ret = Some(False)
    /\ ~connected
    /\ usb = NewDriver
    /\ bus # <<>>
    /\ bus[Len(bus)].op = "release"

\* ------------------------------------------------------ close after open

\* The interfaces a log claimed with success, and those it released.
Succeeded(log) ==
    LET c == SelectSeq(log, LAMBDA e : e.op = "claim" /\ e.ok)
    IN  [i \in 1..Len(c) |-> c[i].iface]

Released(log) ==
    LET c == SelectSeq(log, LAMBDA e : e.op = "release")
    IN  [i \in 1..Len(c) |-> c[i].iface]

\* The log ends with stop-FRAME, stop-FILEIO and then only releases.
EndsWithClose(log) ==
    LET k == Len(log) - Len(Released(log))
    IN  /\ k >= 2
        /\ \A i \in (k + 1)..Len(log) : log[i].op = "release"
        /\ log[k - 1].op = "ctrl"
        /\ <<log[k - 1].wValue, log[k - 1].wIndex>> = StopFrame
        /\ log[k].op = "ctrl"
        /\ <<log[k].wValue, log[k].wIndex>> = StopFileIO

\* C17 — Open tries every interface and records exactly those whose claim
\* succeeded; close issues stop-FRAME, then stop-FILEIO, whether or not
\* they fail, releases each recorded interface once and no other, and
\* leaves the driver as a new one (claimed list empty, no handle, not
\* initialized); a close of the closed driver changes nothing.
C17_CloseReleasesWhatOpenClaimed ==
    /\ [](connected =>
            /\ Len(SelectSeq(bus, LAMBDA e : e.op = "claim")) = Len(USB_INTERFACES)
            /\ usb.claimed_interfaces = Succeeded(bus)
            /\ Released(bus) = <<>>)
    /\ []((~connected /\ bus # <<>>) =>
            /\ EndsWithClose(bus)
            /\ Released(bus) = Succeeded(bus)
            /\ usb = NewDriver)
    /\ [][(Disconnect /\ connected) =>
            /\ Len(bus') = Len(bus) + 2 + Len(usb.claimed_interfaces)
            /\ Released(bus') = usb.claimed_interfaces
            /\ usb' = NewDriver]_vars
    /\ [][CloseDriver => (usb' = usb /\ bus' = bus)]_vars

\* A session in which the claim of interface 1 failed has been closed with
\* both stop transfers failing, and the driver has been closed once more.
C17_Witness ==
    /\ ~connected
    /\ last.op = "close"
    /\ usb = NewDriver
    /\ EndsWithClose(bus)
    /\ ~bus[Len(bus) - Len(Released(bus))].ok
    /\ Succeeded(bus) = <<0, 2>>
    /\ Released(bus) = <<0, 2>>

\* ------------------------------------------------------ read always ends

Float32Places == 4

Float64Places == 8

MatrixWidth == 2

\* Calibration values are written in hundredths: 2110677 is 21106.77.
\* thermal.py:8-15
DefaultConfig ==
    [PlanckR1 |-> 2110677, PlanckB |-> 150680, PlanckF |-> 100,
     PlanckO |-> -734000, Emissivity |-> 95, ReflectedApparentTemperature |-> 2000]

\* Records camera_config.json may hold (thermal.py:28-32 takes any): an
\* offset above the lowest raw counts, a negative PlanckF, and a PlanckF
\* of one half with a small PlanckR1.
Calibrations ==
    {DefaultConfig,
     [DefaultConfig EXCEPT !.PlanckO = 10000],
     [DefaultConfig EXCEPT !.PlanckF = -100],
     [DefaultConfig EXCEPT !.PlanckF = 50, !.PlanckR1 = 367000]}

\* Raw counts: below and at the default offset, the range of 16-bit
\* values, and one just above the offset 100.
RawCounts == {-8000, -7340, 0, 101, 4096, 65535}

\* The emissivities /api/set_params can leave in EMISSIVITY, in hundredths
\* (web_viewer.py:125 keeps 0.1 <= e <= 1.0), and the reflected
\* temperatures a record may hold.
Emissivities == {10, 50, 95, 100}

ReflectedTemperatures == {2000, 2500}

\* The records with the Planck constants of cal.
Radiometries(cal) ==
    {[cal EXCEPT !.Emissivity = e, !.ReflectedApparentTemperature = t] :
        e \in Emissivities, t \in ReflectedTemperatures}

Pow2(k) == 2 ^ k

Abs(x) == IF x < 0 THEN -x ELSE x

Sign(x) == IF x < 0 THEN -1 ELSE 1

\* A value in hundredths as a number with p binary places, rounded to the
\* nearest.
ToPlaces(h, p) == Sign(h) * ((Abs(h) * Pow2(p) + 50) \div 100)

\* The first k binary places of r / b, for 0 <= r < b.
RECURSIVE Frac(_, _, _)
Frac(r, b, k) ==
    IF k = 0 THEN 0
    ELSE IF 2 * r >= b THEN Pow2(k - 1) + Frac(2 * r - b, b, k - 1)
    ELSE Frac(2 * r, b, k - 1)

\* a / b for numbers with p binary places, b # 0, to p places.
Divide(a, b, p) ==
    Sign(a) * Sign(b)
        * ((Abs(a) \div Abs(b)) * Pow2(p) + Frac(Abs(a) % Abs(b), Abs(b), p))

\* log2 of v > 0 with p places: the exponent e with 2^e <= v < 2^(e+1),
\* and v scaled into [1, 2).
RECURSIVE Exponent(_, _)
Exponent(v, p) ==
    IF v >= 2 * Pow2(p) THEN 1 + Exponent(v \div 2, p)
    ELSE IF v < Pow2(p) THEN Exponent(2 * v, p) - 1
    ELSE 0

RECURSIVE Mantissa(_, _)
Mantissa(v, p) ==
    IF v >= 2 * Pow2(p) THEN Mantissa(v \div 2, p)
    ELSE IF v < Pow2(p) THEN Mantissa(2 * v, p)
    ELSE v

\* The first k places of log2(m) for m in [1, 2), by repeated squaring.
RECURSIVE LogBits(_, _, _)
LogBits(m, k, p) ==
    IF k = 0 THEN 0
    ELSE LET sq == (m * m) \div Pow2(p)
         IN  IF sq >= 2 * Pow2(p)
             THEN Pow2(k - 1) + LogBits(sq \div 2, k - 1, p)
             ELSE LogBits(sq, k - 1, p)

\* np.log(v) for v > 0 with p places: log2(v) * ln 2.  np.log(1.0) is 0.
Log(v, p) ==
    LET log2 == Exponent(v, p) * Pow2(p) + LogBits(Mantissa(v, p), p, p)
        ln2 == ToPlaces(69, p)
    IN  Sign(log2) * ((Abs(log2) * ln2) \div Pow2(p))

\* A result of raw2temp: a number n with so many places, or inf, or nan;
\* with it the denominator and the argument of the logarithm it came from.
Finite(n, p, denom, val) ==
    [kind |-> "finite", places |-> p, n |-> n, denom |-> denom, val |-> val]

NotFinite(k, p, denom, val) ==
    [kind |-> k, places |-> p, n |-> 0, denom |-> denom, val |-> val]

\* raw2temp from the denominator on (thermal.py:88-99), in numbers with p
\* places: val = R1 / denom + F, set to 1 when not positive; then
\* B / log(val) - 273.15, where a division by zero gives inf (nan for 0/0)
\* and a warning.
PlanckFrom(denom, cal, p) ==
    LET val0 == Divide(ToPlaces(cal.PlanckR1, p), denom, p) + ToPlaces(cal.PlanckF, p)
        val == IF val0 <= 0 THEN Pow2(p) ELSE val0
        ln == Log(val, p)
        B == ToPlaces(cal.PlanckB, p)
    IN  IF ln = 0
        THEN NotFinite(IF B = 0 THEN "nan" ELSE "inf", p, denom, val)
        ELSE Finite(Divide(B, ln, p) - ToPlaces(27315, p), p, denom, val)

\* The conversion of the docstring of raw2temp (thermal.py:50): the signal
\* is divided by the emissivity before the Planck formula.
Raw2TempCellEmissivity(raw, cal) ==
    LET p == Float32Places
        O == ToPlaces(cal.PlanckO, p)
        safe_raw == IF raw * Pow2(p) <= O THEN O + Pow2(p) ELSE raw * Pow2(p)
        denom == ((safe_raw - O) * 100) \div cal.Emissivity
    IN  PlanckFrom(IF denom = 0 THEN Pow2(p) ELSE denom, cal, p)

\* One cell of raw2temp(matrix) (thermal.py:69, 76, 81-84): every step is
\* done in float32.
Raw2TempCell(raw, cal) ==
    LET p == Float32Places
        O == ToPlaces(cal.PlanckO, p)
        safe_raw == IF raw * Pow2(p) <= O THEN O + Pow2(p) ELSE raw * Pow2(p)
        denom == safe_raw - O
    IN  PlanckFrom(IF denom = 0 THEN Pow2(p) ELSE denom, cal, p)

Raw2TempMatrix(m, cal) ==
    [i \in DOMAIN m |-> [j \in DOMAIN m[i] |-> Raw2TempCell(m[i][j], cal)]]

\* The type NumPy gives a 0-d float32 array combined with a Python number:
\* float64 under the value-based rules of NumPy 1, float32 under NEP 50.
Promoted(np) == IF np = "legacy" THEN Float64Places ELSE Float32Places

\* raw2temp(scalar) (thermal.py:69, 72-74, 81, 85-86): a clamped safe_raw
\* and a replaced denom are Python floats, and what follows is done in
\* float64.
Raw2TempScalar(raw, cal, np) ==
    LET clamped == raw * Pow2(Float32Places) <= ToPlaces(cal.PlanckO, Float32Places)
        p == IF clamped THEN Float64Places ELSE Promoted(np)
        O == ToPlaces(cal.PlanckO, p)
        safe_raw == IF clamped THEN O + Pow2(p) ELSE raw * Pow2(p)
        denom == safe_raw - O
    IN  IF denom = 0
        THEN PlanckFrom(Pow2(Float64Places), cal, Float64Places)
        ELSE PlanckFrom(denom, cal, p)

\* Python's a == b for two results.
Equal(a, b) ==
    IF a.kind = "finite" /\ b.kind = "finite"
    THEN a.n * Pow2(Float64Places - a.places) = b.n * Pow2(Float64Places - b.places)
    ELSE a.kind = "inf" /\ b.kind = "inf"

\* The matrices of raw counts: one row of MatrixWidth cells, in the order
\* of their counts (raw2temp works cell by cell).
Images ==
    {<<row>> : row \in {r \in [1..MatrixWidth -> RawCounts] :
                            \A j \in 1..(MatrixWidth - 1) : r[j] <= r[j + 1]}}

InitThermal ==
    /\ calibration \in {[c EXCEPT !.ReflectedApparentTemperature = t] :
                            c \in Calibrations, t \in ReflectedTemperatures}
    /\ numpy \in {"legacy", "nep50"}
    /\ image = <<>>
    /\ matrixOut = <<>>
    /\ scalarOut = <<>>
    /\ ViewIdle
    /\ parser = NewParser(TinyBuffer)
    /\ returned = None
    /\ StreamRestIdle
    /\ ChunksIdle
    /\ CamIdle

\* raw2temp is called with a matrix, and with each of its cells.
Convert ==
    /\ \E m \in Images :
        /\ image' = m
        /\ matrixOut' = Raw2TempMatrix(m, calibration)
        /\ scalarOut' = [i \in DOMAIN m |-> [j \in DOMAIN m[i] |->
                            Raw2TempScalar(m[i][j], calibration, numpy)]]
    /\ UNCHANGED <<calibration, numpy, viewVars, streamVars, chunkVars, camVars>>

\* /api/set_params and the first lines of apply_colormap_16bit
\* (web_viewer.py:120-126, 37-38): the viewer writes its emissivity and
\* its reflected temperature, 20.0, into the context's record.
ApplyParams ==
    /\ \E e \in Emissivities :
        calibration' = [calibration EXCEPT !.Emissivity = e,
                            !.ReflectedApparentTemperature = 2000]
    /\ UNCHANGED <<numpy, image, matrixOut, scalarOut, viewVars, streamVars,
                   chunkVars, camVars>>

NextThermal == Convert \/ ApplyParams

SpecThermal == InitThermal /\ [][NextThermal]_vars

\* Every cell of both results.
Cells == {matrixOut[i][j] : i \in DOMAIN matrixOut, j \in 1..MatrixWidth}
            \cup {scalarOut[i][j] : i \in DOMAIN scalarOut, j \in 1..MatrixWidth}

\* C19 — For every raw count and every calibration raw2temp has a
\* denominator above zero and an argument of the logarithm that is
\* positive and not 1, and its result is finite: not NaN, not infinite.
C19_Raw2TempFinite ==
    \A c \in Cells :
        /\ c.denom > 0
        /\ c.val > 0
        /\ c.val # Pow2(c.places)
        /\ c.kind = "finite"

\* C20 — raw2temp(M)[i][j] equals raw2temp(M[i][j]) for every cell of
\* every matrix M, the cells at or below PlanckO included.
C20_ScalarMatrixAgree ==
    \A i \in DOMAIN matrixOut : \A j \in DOMAIN matrixOut[i] :
        Equal(matrixOut[i][j], scalarOut[i][j])

\* ------------------------------------------------------ overflow trigger

\* What add_chunk does with data once appended (frame_parser.py:62-90):
\* the append, the test of the magic, the resync or the parse.
AppendAndParse(p, data) ==
    LET q == Appended(p, data)
    IN  IF q.buffer_ptr >= 4
        THEN IF Slice(q.buffer, 0, 4) # MAGIC_BYTES
             THEN [parser |-> ResyncBuffer(q), ret |-> None]
             ELSE TryParseFrame(q)
        ELSE [parser |-> q, ret |-> None]

\* The chunk of the add_chunk call that a step feeding the wire makes.
FedChunk == SubSeq(wire, pos + 1, pos')

\* C21 — add_chunk takes the overflow path exactly when buffer_ptr +
\* len(chunk) > buffer_size; a chunk that fits, one filling the buffer
\* exactly included, is appended and parsing is attempted on it.
C21_OverflowTrigger ==
    [][pos' > pos =>
        IF parser.buffer_ptr + Len(FedChunk) > parser.buffer_size
        THEN /\ parser' = ResyncFromChunk(parser, FedChunk)
             /\ returned' = None
        ELSE /\ parser' = AppendAndParse(parser, FedChunk).parser
             /\ returned' = AppendAndParse(parser, FedChunk).ret]_vars

\* ----------------------------------------------------- overflow recovery

\* The bytes the overflow path keeps of a chunk: from its first magic on,
\* as many as the buffer holds, or its last three bytes (all of a shorter
\* chunk) when it has no magic.
KeptOfChunk(data, capacity) ==
    LET p == FindMagic(data, 0)
    IN  IF p >= 0
        THEN SubSeq(data, p + 1, Min(Len(data), p + capacity))
        ELSE SubSeq(data, Len(data) - Min(3, Len(data)) + 1, Len(data))

\* The buffered bytes of a parser.
ValidBytes(p) == SubSeq(p.buffer, 1, p.buffer_ptr)

C23_BufferStartsWithMagic ==
    parser.buffer_ptr >= 4 => SubSeq(parser.buffer, 1, 4) = MAGIC_BYTES

\* --------------------------------------------------- short thermal data

\* The image of f is made of the samples the wire carries behind a header.
ImageFromWire(f) ==
    \E o \in 0..(Len(wire) - HEADER_SIZE - 2 * THERMAL_PIXELS) :
        /\ WireSlice(o, 4) = MAGIC_BYTES
        /\ ThermalBytes(f) = WireSlice(o + HEADER_SIZE, 2 * THERMAL_PIXELS)

\* C24 — No frame is emitted for a header whose thermal_size is below one
\* image (2 bytes per pixel), and the image of every emitted frame holds
\* exactly the samples read from the wire, none padded or substituted.
C24_ShortThermalDiscarded ==
    \A i \in DOMAIN emitted :
        /\ emitted[i].thermal_size >= 2 * THERMAL_PIXELS
        /\ ImageFromWire(emitted[i])

\* ---------------------------------------------------------------------
\* C25. Deadline budgeting in FLIRCamera.read: every bulk read issued by
\* a call is given the time remaining until the call's deadline, so that
\* with a transport that blocks for its whole timeout the call is over no
\* later than its deadline: the clock of a call never passes ReadTimeout.
C25_ReadWithinDeadline ==
    elapsed <= ReadTimeout

\* raw2temp of every cell of m, called one cell at a time.
Raw2TempScalars(m, cal, np) ==
    [i \in DOMAIN m |-> [j \in DOMAIN m[i] |-> Raw2TempScalar(m[i][j], cal, np)]]

\* ---------------------------------------------------------------------
\* C26. raw2temp does not depend on Emissivity or
\* ReflectedApparentTemperature: for the image last converted, every
\* record with the PlanckR1, PlanckB, PlanckF and PlanckO of the context's
\* record gives the temperatures the context gave, as a matrix and cell
\* by cell.
C26_RadiometryIgnored ==
    image # <<>> =>
        \A other \in Radiometries(calibration) :
            /\ matrixOut = Raw2TempMatrix(image, other)
            /\ scalarOut = Raw2TempScalars(image, other, numpy)

\* The viewer set an emissivity of 0.5, and an image was converted to
\* finite temperatures.
C26_Witness ==
    /\ image # <<>>
    /\ calibration.Emissivity = 50
    /\ calibration.ReflectedApparentTemperature = 2000
    /\ \A c \in Cells : c.kind = "finite"

\* The parser holds a header that passed the checks of _try_parse_frame
\* (frame_parser.py:115, 129) and waits for the rest of its frame (line
\* 134).
WaitingForFrame(p) ==
    /\ ~HeaderIncomplete(p)
    /\ SubSeq(p.buffer, 1, 4) = MAGIC_BYTES
    /\ ~BadFrameSize(p, UnpackU32LE(p.buffer, 8))
    /\ p.buffer_ptr < HEADER_SIZE + UnpackU32LE(p.buffer, 8)

\* The bytes of the awaited frame the parser does not hold yet.
Missing(p) == HEADER_SIZE + UnpackU32LE(p.buffer, 8) - p.buffer_ptr

\* ---------------------------------------------------------------------
\* C27. Every accepted header is satisfiable: when the parser waits for
\* the rest of a frame whose header passed validation, a chunk of that
\* frame's remaining bytes is appended, never discarded by the overflow
\* path; the call returns the frame when the chunk brings its last byte,
\* and leaves the parser waiting for the bytes still missing otherwise.
C27_AcceptedHeaderSatisfiable ==
    [][(pos' > pos /\ WaitingForFrame(parser)
            /\ Len(FedChunk) <= Missing(parser)) =>
        /\ ~Overflows(parser, FedChunk)
        /\ IF Len(FedChunk) = Missing(parser)
           THEN returned' # None
           ELSE /\ returned' = None
                /\ WaitingForFrame(parser')
                /\ Missing(parser') = Missing(parser) - Len(FedChunk)]_vars

\* ------------------------------------- read and disconnect, two threads

\* FLIRCamera.connect, which takes the lock disconnect holds.
RaceConnect == closer = "idle" /\ Connect

\* FLIRCamera.disconnect up to usb.close() (camera.py:78-80): the lock is
\* taken and _connected tested.
DisconnectBegin ==
    /\ closer = "idle"
    /\ IF connected
       THEN closer' = "closing" /\ UNCHANGED last
       ELSE closer' = "idle" /\ last' = Called("disconnect", None, None)
    /\ UNCHANGED <<streamVars, chunkVars, thermVars, usb, connected, plugged,
                   bus, unstartedRead, pc, elapsed, usbRead>>

\* USBDriver.close, its test of self.device and the two stop transfers
\* (usb_driver.py:129-138).
CloseStop ==
    /\ closer = "closing"
    /\ IF usb.device = None
       THEN closer' = "cleared" /\ UNCHANGED bus
       ELSE /\ closer' = "stopped"
            /\ \E stopOk \in StopFaults :
                bus' = bus \o <<CtrlOp(StopFrame[1], StopFrame[2], StopFrame[2] \in stopOk),
                                CtrlOp(StopFileIO[1], StopFileIO[2], StopFileIO[2] \in stopOk)>>
    /\ UNCHANGED <<streamVars, chunkVars, thermVars, usb, connected, plugged,
                   unstartedRead, pc, elapsed, last, usbRead>>

\* USBDriver.close, the release of the interfaces (usb_driver.py:141-147).
CloseRelease ==
    /\ closer = "stopped"
    /\ closer' = "released"
    /\ bus' = bus \o [i \in 1..Len(usb.claimed_interfaces) |->
                        ReleaseOp(usb.claimed_interfaces[i])]
    /\ usb' = [usb EXCEPT !.claimed_interfaces = <<>>]
    /\ UNCHANGED <<streamVars, chunkVars, thermVars, connected, plugged,
                   unstartedRead, pc, elapsed, last, usbRead>>

\* USBDriver.close, its last two assignments (usb_driver.py:148-149).
CloseClear ==
    /\ closer = "released"
    /\ closer' = "cleared"
    /\ usb' = [usb EXCEPT !.device = None, !.initialized = FALSE]
    /\ UNCHANGED <<streamVars, chunkVars, thermVars, connected, plugged, bus,
                   unstartedRead, pc, elapsed, last, usbRead>>

\* FLIRCamera.disconnect after usb.close() (camera.py:81-82).
DisconnectEnd ==
    /\ closer = "cleared"
    /\ closer' = "idle"
    /\ connected' = FALSE
    /\ last' = IF pc = "idle" THEN Called("disconnect", None, None) ELSE last
    /\ UNCHANGED <<streamVars, chunkVars, thermVars, usb, plugged, bus,
                   unstartedRead, pc, elapsed, usbRead>>

\* USBDriver.read, its test of self.device (usb_driver.py:113-114), inside
\* a turn of the loop of FLIRCamera.read: None makes the loop go on.
ReadCheck ==
    /\ pc = "loop"
    /\ elapsed < ReadTimeout
    /\ IF usb.device = None
       THEN /\ usbRead' = [outcome |-> "none", ret |-> None, exc |-> None]
            /\ elapsed' = elapsed + 1
            /\ UNCHANGED pc
       ELSE /\ pc' = "checked"
            /\ UNCHANGED <<usbRead, elapsed>>
    /\ UNCHANGED <<streamVars, chunkVars, thermVars, usb, connected, plugged,
                   bus, unstartedRead, last, closer>>

\* USBDriver.read, self.device.read(...) (usb_driver.py:117-125), and the
\* rest of the turn (camera.py:101-107).  self.device is read again: when
\* it is None by now the call raises AttributeError, which no except
\* clause of USBDriver.read or FLIRCamera.read catches.
ReadUse ==
    /\ pc = "checked"
    /\ IF usb.device = None
       THEN /\ usbRead' = [outcome |-> "none", ret |-> None,
                           exc |-> Some("AttributeError")]
            /\ last' = [last EXCEPT !.exc = Some("AttributeError")]
            /\ pc' = "idle"
            /\ UNCHANGED <<parser, returned, pos, emitted, elapsed, unstartedRead>>
       ELSE \E outcome \in BulkOutcomes :
            LET data == SubSeq(wire, pos + 1, Min(pos + BUFFER_SIZE, Len(wire)))
                r == DriverRead(usb, outcome, data)
                a == AddChunk(parser, Bytes(r.ret))
            IN  /\ usbRead' = [outcome |-> outcome, ret |-> r.ret, exc |-> r.exc]
                /\ unstartedRead' = (unstartedRead \/ ~StartIssued)
                /\ elapsed' = elapsed + (IF outcome \in {"USBTimeoutError", "errno110"}
                                         THEN ReadTimeout ELSE 1)
                /\ pos' = IF outcome = "data" THEN pos + Len(data) ELSE pos
                /\ IF r.ret = None
                   THEN /\ last' = [last EXCEPT !.fatal =
                                        @ \/ outcome \in {"errno19", "errnoOther"}]
                        /\ pc' = "loop"
                        /\ UNCHANGED <<parser, returned, emitted>>
                   ELSE /\ parser' = a.parser
                        /\ returned' = a.ret
                        /\ emitted' = emitted \o a.ret
                        /\ IF a.ret # None
                           THEN /\ pc' = "idle"
                                /\ last' = [last EXCEPT !.ret = Some(MakeFrame(a.ret[1]))]
                           ELSE pc' = "loop" /\ UNCHANGED last
    /\ UNCHANGED <<usb, connected, plugged, bus, camOthers>>

InitRace == InitCamera /\ plugged

NextRace ==
    \/ RaceConnect
    \/ DisconnectBegin \/ CloseStop \/ CloseRelease \/ CloseClear \/ DisconnectEnd
    \/ ReadBegin \/ ReadCheck \/ ReadUse \/ ReadDeadline

SpecRace == InitRace /\ [][NextRace]_vars

\* Close has cleared the handle, or released its interfaces.
TornDown == usb.device = None \/ closer \in {"released", "cleared"}

\* ---------------------------------------------------------------------
\* C28. No read/close race: while FLIRCamera.read runs concurrently with
\* disconnect, USBDriver.read never stands between its test of
\* self.device and its use of the handle with the handle cleared or
\* released by close, and no call of read raises.
C28_NoReadCloseRace ==
    /\ pc = "checked" => ~TornDown
    /\ last.op = "read" => last.exc = None

\* Every control transfer of the handshake was issued in the session and
\* none raised.
HandshakeSucceeded(log) ==
    \A i \in 1..Len(Handshake) :
        \E k \in DOMAIN log :
            /\ log[k].op = "ctrl"
            /\ <<log[k].wValue, log[k].wIndex>> = Handshake[i]
            /\ log[k].ok

\* ---------------------------------------------------------------------
\* C29. Connected implies streaming was started: whenever the facade's
\* connected flag is set, the three control transfers of the handshake
\* succeeded and the driver's initialized flag is true.
C29_ConnectedImpliesStarted ==
    connected => usb.initialized /\ HandshakeSucceeded(bus)

\* ------------------------------------------- web viewer: measurement points

\* web_viewer.py:137
SpotLimit == 5

\* The points a request may carry (int(float(x)), int(float(y))).
Clicks == {<<1, 1>>, <<2, 2>>}

\* A request thread inside add_spot, at the test of line 137, the pop of
\* line 138 or the append of line 139, with its point; and the thread
\* after its response.
Handling(at, point) == [at |-> at, point |-> Some(point)]

Responded(status) == [at |-> status, point |-> None]

InitSpots ==
    /\ ViewIdle
    /\ ConversionIdle
    /\ parser = NewParser(TinyBuffer)
    /\ returned = None
    /\ StreamRestIdle
    /\ ChunksIdle
    /\ CamIdle

spotOthers == <<calibration, numpy, image, matrixOut, scalarOut, streamVars,
                chunkVars, camVars>>

\* /api/add_spot, lines 133-136: x and y are parsed; a missing or
\* malformed one raises, and the bare except answers 400.
AddSpotParse(h) ==
    /\ handlers[h].at \in {"idle", "ok", "error"}
    /\ \/ \E c \in Clicks : handlers' = [handlers EXCEPT ![h] = Handling("test", c)]
       \/ handlers' = [handlers EXCEPT ![h] = Responded("error")]
    /\ UNCHANGED <<points, spotOthers>>

\* line 137: len(MEASUREMENT_POINTS) >= 5
AddSpotTest(h) ==
    /\ handlers[h].at = "test"
    /\ handlers' = [handlers EXCEPT ![h].at =
                        IF Len(points) >= SpotLimit THEN "pop" ELSE "append"]
    /\ UNCHANGED <<points, spotOthers>>

\* line 138: MEASUREMENT_POINTS.pop(0); on a list emptied since the test
\* it raises IndexError, and the bare except answers 400.
AddSpotPop(h) ==
    /\ handlers[h].at = "pop"
    /\ IF points = <<>>
       THEN /\ handlers' = [handlers EXCEPT ![h] = Responded("error")]
            /\ UNCHANGED points
       ELSE /\ points' = Tail(points)
            /\ handlers' = [handlers EXCEPT ![h].at = "append"]
    /\ UNCHANGED spotOthers

\* lines 139-140: MEASUREMENT_POINTS.append((x, y)) and the answer
AddSpotAppend(h) ==
    /\ handlers[h].at = "append"
    /\ points' = Append(points, handlers[h].point[1])
    /\ handlers' = [handlers EXCEPT ![h] = Responded("ok")]
    /\ UNCHANGED spotOthers

\* /api/clear_spots, line 147, on a thread that is in no other request.
ClearSpots(h) ==
    /\ handlers[h].at \in {"idle", "ok", "error"}
    /\ points' = <<>>
    /\ handlers' = [handlers EXCEPT ![h] = Responded("ok")]
    /\ UNCHANGED spotOthers

NextSpots ==
    \E h \in Handlers :
        \/ AddSpotParse(h) \/ AddSpotTest(h) \/ AddSpotPop(h) \/ AddSpotAppend(h)
        \/ ClearSpots(h)

SpecSpots == InitSpots /\ [][NextSpots]_vars

\* ---------------------------------------------------------------------
\* C30. Measurement-point cap: after any sequence of add_spot and
\* clear_spots requests, handled one after another or concurrently, the
\* list of measurement points never holds more than 5 entries.
C30_SpotCap ==
    Len(points) <= SpotLimit

\* ------------------------------------------- the driver used on its own

\* The opens in a row, without a close, that the runs go up to.
MaxOpens == 2

\* USBDriver.open called on the driver itself (usb_driver.py:40-71), after
\* a close or after an open.
OpenDriver ==
    /\ pc = "idle"
    /\ ~connected
    /\ Len(usb.claimed_interfaces) <= (MaxOpens - 1) * Len(USB_INTERFACES)
    /\ \E f \in OpenFaults :
        LET o == DriverOpen(usb, bus, plugged, f.claimFail, f.ctrlOk)
        IN  /\ usb' = o.usb
            /\ bus' = o.bus
            /\ last' = Called("open", IF o.exc = None THEN Some(True) ELSE None,
                              o.exc)
    /\ UNCHANGED <<parser, returned, pos, emitted, connected, plugged,
                   unstartedRead, pc, elapsed, usbRead, camOthers>>

NextDriver == Plug \/ Unplug \/ OpenDriver \/ CloseDriver

SpecDriver == InitCamera /\ [][NextDriver]_vars

\* ---------------------------------------------------------------------
\* C31. Claimed-interface bookkeeping: after any sequence of
\* USBDriver.open and close calls, an open after an open included, the
\* list of claimed interfaces holds only indices of USB_INTERFACES, holds
\* none of them twice, and is empty whenever the device handle is None.
C31_ClaimedInterfaces ==
    LET claimed == usb.claimed_interfaces
    IN  /\ \A i \in DOMAIN claimed : claimed[i] \in {0, 1, 2}
        /\ \A i, j \in DOMAIN claimed : i # j => claimed[i] # claimed[j]
        /\ usb.device = None => claimed = <<>>

\* ---------------------------------------------------------------------
\* C32. Buffer bounds: after any sequence of add_chunk and reset calls
\* with chunks of any length, 0 <= buffer_ptr <= buffer_size holds and the
\* bytearray still has buffer_size bytes.
C32_BufferBounds ==
    /\ 0 <= parser.buffer_ptr
    /\ parser.buffer_ptr <= parser.buffer_size
    /\ Len(parser.buffer) = parser.buffer_size

====
